---- MODULE Spec2Model ----
(***************************************************************************)
(* Model of the libdns provider for Metaname (provider.go).                *)
(*                                                                         *)
(* The Provider keeps no records of its own: the state is the remote zone  *)
(* and, for stating properties, the record of the last call (its input,    *)
(* the zone it started from, the remote calls it issued, what it           *)
(* returned).  Each of GetRecords, AppendRecords, SetRecords and           *)
(* DeleteRecords is one action that runs the whole method.                 *)
(***************************************************************************)
EXTENDS Integers, Sequences, FiniteSets, TLC

VARIABLES
    zone,      \* the remote zone: the native records in fetch order
    nextRef,   \* the next reference the remote assigns
    op,        \* the last Provider method called
    input,     \* its records argument
    pre,       \* the remote zone when it was called
    calls,     \* the create/update/delete calls it issued, in order
    ret,       \* the list it returned (<<>> also stands for nil)
    err,       \* the error it returned ("none" for nil)
    fetched,   \* its fetch of the zone: "ok", "failed", or "none" (no fetch)
    prev,      \* the call before the last one
    nops,      \* the number of calls made so far
    conc       \* the SetRecords calls running at the same time on the Provider

vars == <<zone, nextRef, op, input, pre, calls, ret, err, fetched, prev, nops, conc>>

----------------------------------------------------------------------------
(* Bounds *)

\* Longest records argument of a call.
MaxIn == 2
\* Number of Provider calls in a run.
MaxOps == 2
\* Longest records argument of a call that another call follows.
MaxEarlier == 1

----------------------------------------------------------------------------
(* time.Duration and netip.Addr *)

\* time.Second expressed in the unit durations are counted in (milliseconds).
Second == 1000

\* int(d.Seconds()): the duration in whole seconds, the fraction cut off.
Seconds(d) == d \div Second

\* FromSeconds without the multiplication: the number taken as a duration.
FromSecondsBare(ttl) == ttl

\* time.Duration(ttl) * time.Second
FromSeconds(ttl) == ttl * Second

\* netip.Addr values: two IPv4 addresses, one IPv6 address and the zero Addr.
ZeroAddr == "addr:zero"
Addrs == {"addr4:1", "addr6:1", ZeroAddr}

\* Addr.Is6
Is6(ip) == ip = "addr6:1"

\* Addr.String: the canonical text of the address.
AddrString(ip) ==
    CASE ip = "addr4:1" -> "1.1.1.1"
      [] ip = "addr6:1" -> "::1"
      [] OTHER -> "invalid IP"

\* netip.ParseAddr: several texts name the same IPv6 address; a text that is
\* no IP literal is an error.
ParseAddr(s) ==
    CASE s = "1.1.1.1" -> [ok |-> TRUE, ip |-> "addr4:1"]
      [] s = "::1" -> [ok |-> TRUE, ip |-> "addr6:1"]
      [] s = "0:0:0:0:0:0:0:1" -> [ok |-> TRUE, ip |-> "addr6:1"]
      [] OTHER -> [ok |-> FALSE, ip |-> ZeroAddr]

----------------------------------------------------------------------------
(* libdns records.  A record is [kind, Name, TTL, Type, Val]: kind is the  *)
(* Go struct (Address, CNAME, TXT, MX, RR), Val its payload (IP, Target,   *)
(* Text, or Data), Type the type string of an RR ("" for the typed kinds). *)

Address(name, ttl, ip) ==
    [kind |-> "Address", Name |-> name, TTL |-> ttl, Type |-> "", Val |-> ip]
CNAME(name, ttl, target) ==
    [kind |-> "CNAME", Name |-> name, TTL |-> ttl, Type |-> "", Val |-> target]
TXT(name, ttl, text) ==
    [kind |-> "TXT", Name |-> name, TTL |-> ttl, Type |-> "", Val |-> text]
MX(name, ttl, data) ==
    [kind |-> "MX", Name |-> name, TTL |-> ttl, Type |-> "", Val |-> data]
RRec(name, ttl, type, data) ==
    [kind |-> "RR", Name |-> name, TTL |-> ttl, Type |-> type, Val |-> data]

\* Record.RR(): the record as a (Name, TTL, Type, Data) tuple.
RR(rec) ==
    [Name |-> rec.Name,
     TTL  |-> rec.TTL,
     Type |-> CASE rec.kind = "Address" -> (IF Is6(rec.Val) THEN "AAAA" ELSE "A")
                [] rec.kind = "RR" -> rec.Type
                [] OTHER -> rec.kind,
     Data |-> IF rec.kind = "Address" THEN AddrString(rec.Val) ELSE rec.Val]

\* RR.Parse(): the typed struct for the RR's type; an A or AAAA RR whose data
\* is no IP literal is an error; an RR of a type libdns does not know is
\* returned as it is.
Parse(rr) ==
    CASE rr.Type \in {"A", "AAAA"} ->
            LET a == ParseAddr(rr.Data)
            IN  [ok |-> a.ok, rec |-> Address(rr.Name, rr.TTL, a.ip)]
      [] rr.Type = "CNAME" -> [ok |-> TRUE, rec |-> CNAME(rr.Name, rr.TTL, rr.Data)]
      [] rr.Type = "TXT" -> [ok |-> TRUE, rec |-> TXT(rr.Name, rr.TTL, rr.Data)]
      [] rr.Type = "MX" -> [ok |-> TRUE, rec |-> MX(rr.Name, rr.TTL, rr.Data)]
      [] OTHER -> [ok |-> TRUE, rec |-> RRec(rr.Name, rr.TTL, rr.Type, rr.Data)]

\* The kinds the type switches of provider.go have a case for.
Handled(rec) == rec.kind \in {"Address", "CNAME", "TXT"}

----------------------------------------------------------------------------
(* The remote API (client.go): the zone is a sequence of metanameRR        *)
(* [Name, Type, Ttl, Data, Reference].                                     *)

metanameRR(name, type, ttl, data) ==
    [Name |-> name, Type |-> type, Ttl |-> ttl, Data |-> data, Reference |-> 0]

HasRef(z, ref) == \E i \in DOMAIN z : z[i].Reference = ref

\* update_dns_record and delete_dns_record on a reference the zone does not
\* hold: the remote answers with a fault.
NoSuchRecord(z, ref) == ~HasRef(z, ref)

\* create_dns_record: the record is stored under a fresh reference.
create_dns_record(z, ref, mrec) == Append(z, [mrec EXCEPT !.Reference = ref])

\* update_dns_record: the record with the reference is replaced.
update_dns_record(z, ref, mrec) ==
    [i \in DOMAIN z |->
        IF z[i].Reference = ref THEN [mrec EXCEPT !.Reference = ref] ELSE z[i]]

\* delete_dns_record: the record with the reference is removed.
delete_dns_record(z, ref) == SelectSeq(z, LAMBDA r : r.Reference # ref)

\* One remote call as the Provider's log keeps it.
Call(kind, ref, mrec) == [call |-> kind, ref |-> ref, rec |-> mrec]

NoRec == metanameRR("", "", 0, "")

----------------------------------------------------------------------------
(* Inputs *)

\* The records callers pass: addresses (IPv4, IPv6, and one with the zero
\* Addr), an alias, texts (whole and fractional TTLs, two values, and the two
\* texts without a value of TestErrors), and an RR of a type provider.go has
\* no case for.
InputRecords ==
    {Address("a", 1 * Second, ip) : ip \in Addrs}
    \cup {CNAME("b", 1 * Second, "t.")}
    \cup {TXT("a", ttl, "v1") : ttl \in {1000, 1500, 2000}}
    \cup {TXT("a", 1 * Second, "v2")}
    \cup {TXT("", 0, ""), TXT("a", 0, "")}
    \cup {RRec("b", 1 * Second, "MX", "10 mail")}

RECURSIVE SeqsUpTo(_, _)
SeqsUpTo(S, n) ==
    IF n = 0 THEN {<<>>}
    ELSE LET shorter == SeqsUpTo(S, n - 1)
         IN  shorter \cup {Append(s, x) : s \in {t \in shorter : Len(t) = n - 1}, x \in S}

Inputs == SeqsUpTo(InputRecords, MaxIn)

\* Zones the remote may hold before the first call: empty, or one record: of
\* this provider's making, or made elsewhere (a type the provider does not
\* translate, address data that is no IP literal or not canonical).
SeedRecords ==
    {metanameRR("a", "TXT", 1, "v1"),
     metanameRR("b", "MX", 1, "10 mail"),
     metanameRR("a", "A", 1, "not-an-ip"),
     metanameRR("a", "AAAA", 1, "0:0:0:0:0:0:0:1")}

WithRefs(z) == [i \in DOMAIN z |-> [z[i] EXCEPT !.Reference = i]]

\* Longest zone before the first call.
MaxSeed == 1

InitZones == {WithRefs(z) : z \in SeqsUpTo(SeedRecords, MaxSeed)}

----------------------------------------------------------------------------
(* AppendRecords *)

\* The state of a running method: the zone, the next reference, the log of
\* remote calls, the list accumulated so far, the error and the list returned.
Start(z, ref) ==
    [zone |-> z, nextRef |-> ref, calls |-> <<>>, acc |-> <<>>,
     err |-> "none", ret |-> <<>>, done |-> FALSE, fetched |-> "none"]

\* p.dns_zone(ctx, zone) at the start of a method: the fetch and its outcome.
Fetched(st, fetchOk) == [st EXCEPT !.fetched = IF fetchOk THEN "ok" ELSE "failed"]

\* return list, err
Return(st, list, e) == [st EXCEPT !.ret = list, !.err = e, !.done = TRUE]

\* AppendNative with the TTL rounded up to the next whole second.
AppendNativeRoundUp(rr, r) ==
    CASE r.kind = "Address" ->
            metanameRR(r.Name, rr.Type, (r.TTL + Second - 1) \div Second, AddrString(r.Val))
      [] r.kind = "CNAME" ->
            metanameRR(r.Name, "CNAME", (r.TTL + Second - 1) \div Second, r.Val)
      [] r.kind = "TXT" ->
            metanameRR(r.Name, "TXT", (r.TTL + Second - 1) \div Second, r.Val)

\* The metanameRR AppendRecords builds for the parsed record r of an input
\* whose RR() is rr.
AppendNative(rr, r) ==
    CASE r.kind = "Address" -> metanameRR(r.Name, rr.Type, Seconds(r.TTL), AddrString(r.Val))
      [] r.kind = "CNAME" -> metanameRR(r.Name, "CNAME", Seconds(r.TTL), r.Val)
      [] r.kind = "TXT" -> metanameRR(r.Name, "TXT", Seconds(r.TTL), r.Val)

\* A create call: it fails when it is the failAt-th remote call of the method.
DoCreate(st, mrec, failAt) ==
    LET n == Len(st.calls) + 1
        logged == [st EXCEPT !.calls = Append(@, Call("create", st.nextRef, mrec))]
    IN  IF n = failAt
        THEN [logged EXCEPT !.err = "remote"]
        ELSE [logged EXCEPT !.zone = create_dns_record(@, st.nextRef, mrec),
                            !.nextRef = @ + 1]

RECURSIVE AppendLoop(_, _, _, _)
AppendLoop(records, i, failAt, st) ==
    IF i > Len(records) THEN Return(st, st.acc, "none")
    ELSE
        LET rr == RR(records[i])
            parsed == Parse(rr)
        IN  IF ~parsed.ok THEN Return(st, <<>>, "parse")
            ELSE IF Handled(parsed.rec)
            THEN LET after == DoCreate(st, AppendNative(rr, parsed.rec), failAt)
                 IN  IF after.err # "none" THEN Return(after, <<>>, after.err)
                     ELSE AppendLoop(records, i + 1, failAt,
                                     [after EXCEPT !.acc = Append(@, parsed.rec)])
            ELSE AppendLoop(records, i + 1, failAt, st)

AppendRecordsRun(z, ref, records, failAt) == AppendLoop(records, 1, failAt, Start(z, ref))

----------------------------------------------------------------------------
(* GetRecords *)

\* Listed without the skip of an address whose data does not parse: the
\* record is listed with the zero Addr.
ListedNoSkip(rec) ==
    CASE rec.Type \in {"A", "AAAA"} ->
            [ok |-> TRUE,
             rec |-> Address(rec.Name, FromSeconds(rec.Ttl), ParseAddr(rec.Data).ip)]
      [] rec.Type = "CNAME" ->
            [ok |-> TRUE, rec |-> CNAME(rec.Name, FromSeconds(rec.Ttl), rec.Data)]
      [] rec.Type = "TXT" ->
            [ok |-> TRUE, rec |-> TXT(rec.Name, FromSeconds(rec.Ttl), rec.Data)]
      [] OTHER -> [ok |-> FALSE, rec |-> TXT("", 0, "")]

\* The switch of GetRecords on one fetched record: the libdns record it
\* appends, or that it skips the record.
Listed(rec) ==
    CASE rec.Type \in {"A", "AAAA"} ->
            LET a == ParseAddr(rec.Data)
            IN  [ok |-> a.ok, rec |-> Address(rec.Name, FromSeconds(rec.Ttl), a.ip)]
      [] rec.Type = "CNAME" ->
            [ok |-> TRUE, rec |-> CNAME(rec.Name, FromSeconds(rec.Ttl), rec.Data)]
      [] rec.Type = "TXT" ->
            [ok |-> TRUE, rec |-> TXT(rec.Name, FromSeconds(rec.Ttl), rec.Data)]
      [] OTHER -> [ok |-> FALSE, rec |-> TXT("", 0, "")]

\* The list GetRecords builds from the fetched records.
ListOf(z) ==
    LET kept == SelectSeq(z, LAMBDA r : Listed(r).ok)
    IN  [i \in DOMAIN kept |-> Listed(kept[i]).rec]

GetRecordsRun(z, ref, fetchOk) ==
    LET st == Fetched(Start(z, ref), fetchOk)
    IN  IF ~fetchOk THEN Return(st, <<>>, "fetch")
        ELSE Return(st, ListOf(z), "none")

----------------------------------------------------------------------------
(* SetRecords *)

\* rec.Name + "|" + rec.Type
Key(name, type) == <<name, type>>

\* existingMap: for each key the last fetched record bearing it.
ExistingKeys(raw) == {Key(raw[i].Name, raw[i].Type) : i \in DOMAIN raw}

\* Existing with the map keyed by the name alone.
ExistingByName(raw, key) ==
    LET last == CHOOSE i \in DOMAIN raw :
                    /\ raw[i].Name = key[1]
                    /\ \A j \in DOMAIN raw : raw[j].Name = key[1] => j <= i
    IN  raw[last]

\* Existing with the first fetched record of a key kept, not the last.
ExistingFirst(raw, key) ==
    LET first == CHOOSE i \in DOMAIN raw :
                    /\ Key(raw[i].Name, raw[i].Type) = key
                    /\ \A j \in DOMAIN raw :
                          Key(raw[j].Name, raw[j].Type) = key => i <= j
    IN  raw[first]

Existing(raw, key) ==
    LET last == CHOOSE i \in DOMAIN raw :
                    /\ Key(raw[i].Name, raw[i].Type) = key
                    /\ \A j \in DOMAIN raw :
                          Key(raw[j].Name, raw[j].Type) = key => j <= i
    IN  raw[last]

\* InputMap with the first record of a key kept, not the last.
RECURSIVE InputMapFirstWins(_, _, _)
InputMapFirstWins(records, i, m) ==
    IF i > Len(records) THEN [ok |-> TRUE, map |-> m]
    ELSE
        LET rr == RR(records[i])
            parsed == Parse(rr)
            key == Key(rr.Name, rr.Type)
        IN  IF ~parsed.ok THEN [ok |-> FALSE, map |-> m]
            ELSE InputMapFirstWins(records, i + 1,
                          [k \in DOMAIN m \cup {key} |->
                              IF k \in DOMAIN m THEN m[k] ELSE parsed.rec])

\* inputMap: the parsed records by key, a later record replacing an earlier
\* one with its key; the first record that does not parse ends the method.
RECURSIVE InputMap(_, _, _)
InputMap(records, i, m) ==
    IF i > Len(records) THEN [ok |-> TRUE, map |-> m]
    ELSE
        LET rr == RR(records[i])
            parsed == Parse(rr)
            key == Key(rr.Name, rr.Type)
        IN  IF ~parsed.ok THEN [ok |-> FALSE, map |-> m]
            ELSE InputMap(records, i + 1,
                          [k \in DOMAIN m \cup {key} |->
                              IF k = key THEN parsed.rec ELSE m[k]])

EmptyMap == [k \in {} |-> TXT("", 0, "")]

\* The metanameRR SetRecords builds for an input record.
SetNative(r) ==
    CASE r.kind = "Address" ->
            metanameRR(r.Name, RR(r).Type, Seconds(r.TTL), AddrString(r.Val))
      [] r.kind = "CNAME" -> metanameRR(r.Name, "CNAME", Seconds(r.TTL), r.Val)
      [] r.kind = "TXT" -> metanameRR(r.Name, "TXT", Seconds(r.TTL), r.Val)

\* recordsMatch without the comparison of the TTLs.
recordsMatchNoTtl(existing, in) ==
    CASE in.kind = "Address" ->
            /\ existing.Type = RR(in).Type
            /\ existing.Name = in.Name
            /\ existing.Data = AddrString(in.Val)
      [] in.kind = "CNAME" ->
            existing.Type = "CNAME" /\ existing.Name = in.Name /\ existing.Data = in.Val
      [] in.kind = "TXT" ->
            existing.Type = "TXT" /\ existing.Name = in.Name /\ existing.Data = in.Val
      [] OTHER -> FALSE

recordsMatch(existing, in) ==
    CASE in.kind = "Address" ->
            /\ existing.Type = RR(in).Type
            /\ existing.Name = in.Name
            /\ existing.Ttl = Seconds(in.TTL)
            /\ existing.Data = AddrString(in.Val)
      [] in.kind = "CNAME" ->
            /\ existing.Type = "CNAME"
            /\ existing.Name = in.Name
            /\ existing.Ttl = Seconds(in.TTL)
            /\ existing.Data = in.Val
      [] in.kind = "TXT" ->
            /\ existing.Type = "TXT"
            /\ existing.Name = in.Name
            /\ existing.Ttl = Seconds(in.TTL)
            /\ existing.Data = in.Val
      [] OTHER -> FALSE

\* An update call: it fails when it is the failAt-th remote call of the
\* method, or when the remote holds no record with the reference.
DoUpdate(st, ref, mrec, failAt) ==
    LET n == Len(st.calls) + 1
        logged == [st EXCEPT !.calls = Append(@, Call("update", ref, mrec))]
    IN  IF n = failAt \/ NoSuchRecord(st.zone, ref)
        THEN [logged EXCEPT !.err = "remote"]
        ELSE [logged EXCEPT !.zone = update_dns_record(@, ref, mrec)]

\* SetStep without the lookup in existingMap: every input record is created.
SetStepCreateOnly(st, raw, key, inputRec, failAt) ==
    IF Handled(inputRec) THEN DoCreate(st, SetNative(inputRec), failAt) ELSE st

\* The body of the loop over inputMap for one key.
SetStep(st, raw, key, inputRec, failAt) ==
    IF key \in ExistingKeys(raw)
    THEN LET existing == Existing(raw, key)
         IN  IF ~recordsMatch(existing, inputRec) /\ Handled(inputRec)
             THEN DoUpdate(st, existing.Reference, SetNative(inputRec), failAt)
             ELSE st
    ELSE IF Handled(inputRec)
         THEN DoCreate(st, SetNative(inputRec), failAt)
         ELSE st

\* The loop over inputMap, in the order the map's iteration yields the keys.
RECURSIVE SetLoop(_, _, _, _, _, _)
SetLoop(raw, m, order, i, failAt, st) ==
    IF i > Len(order) THEN Return(st, st.acc, "none")
    ELSE
        LET after == SetStep(st, raw, order[i], m[order[i]], failAt)
        IN  IF after.err # "none" THEN Return(after, <<>>, after.err)
            ELSE SetLoop(raw, m, order, i + 1, failAt,
                         [after EXCEPT !.acc = Append(@, m[order[i]])])

\* The orders a map's iteration can yield its keys in.
RECURSIVE Orders(_)
Orders(S) ==
    IF S = {} THEN {<<>>}
    ELSE UNION {{<<k>> \o rest : rest \in Orders(S \ {k})} : k \in S}

\* SetRecordsRun without the check of the fetch's error: the method goes on
\* with the nil list of a failed fetch.
SetRecordsRunUnchecked(z, ref, records, fetchOk, order, failAt) ==
    LET st == Fetched(Start(z, ref), fetchOk)
        raw == IF fetchOk THEN z ELSE <<>>
        im == InputMap(records, 1, EmptyMap)
    IN  IF ~im.ok THEN Return(st, <<>>, "parse")
        ELSE SetLoop(raw, im.map, order, 1, failAt, st)

\* SetRecordsRun that parses as it goes: the records before the one that
\* does not parse are created or updated before the error is returned.
SetRecordsRunLazy(z, ref, records, fetchOk, order, failAt) ==
    LET st == Fetched(Start(z, ref), fetchOk)
    IN  IF ~fetchOk THEN Return(st, <<>>, "fetch")
        ELSE LET im == InputMap(records, 1, EmptyMap)
             IN  IF ~im.ok
                 THEN Return(SetLoop(z, im.map,
                                     CHOOSE o \in Orders(DOMAIN im.map) : TRUE,
                                     1, failAt, st),
                             <<>>, "parse")
                 ELSE SetLoop(z, im.map, order, 1, failAt, st)

SetRecordsRun(z, ref, records, fetchOk, order, failAt) ==
    LET st == Fetched(Start(z, ref), fetchOk)
    IN  IF ~fetchOk THEN Return(st, <<>>, "fetch")
        ELSE LET im == InputMap(records, 1, EmptyMap)
             IN  IF ~im.ok THEN Return(st, <<>>, "parse")
                 ELSE SetLoop(z, im.map, order, 1, failAt, st)

----------------------------------------------------------------------------
(* DeleteRecords *)

\* DeleteMatch on the name and the type alone.
DeleteMatchByKey(raw, rr, r) ==
    CASE r.kind = "Address" -> raw.Name = r.Name /\ raw.Type = rr.Type
      [] r.kind = "CNAME" -> raw.Name = r.Name /\ raw.Type = "CNAME"
      [] r.kind = "TXT" -> raw.Name = r.Name /\ raw.Type = "TXT"
      [] OTHER -> FALSE

\* The condition under which DeleteRecords deletes the fetched record raw for
\* the parsed record r of an input whose RR() is rr.
DeleteMatch(raw, rr, r) ==
    CASE r.kind = "Address" ->
            raw.Name = r.Name /\ raw.Type = rr.Type /\ raw.Data = AddrString(r.Val)
      [] r.kind = "CNAME" ->
            raw.Name = r.Name /\ raw.Type = "CNAME" /\ raw.Data = r.Val
      [] r.kind = "TXT" ->
            raw.Name = r.Name /\ raw.Type = "TXT" /\ raw.Data = r.Val
      [] OTHER -> FALSE

\* A delete call: it fails when it is the failAt-th remote call of the
\* method, or when the remote holds no record with the reference.
DoDelete(st, ref, failAt) ==
    LET n == Len(st.calls) + 1
        logged == [st EXCEPT !.calls = Append(@, Call("delete", ref, NoRec))]
    IN  IF n = failAt \/ NoSuchRecord(st.zone, ref)
        THEN [logged EXCEPT !.err = "remote"]
        ELSE [logged EXCEPT !.zone = delete_dns_record(@, ref)]

\* DeleteFailed that returns no list with the error.
DeleteFailedNil(after, st) == Return(after, <<>>, after.err)

\* The return of DeleteRecords when a delete fails: the list so far, and the
\* error.
DeleteFailed(after, st) == Return(after, st.acc, after.err)

\* The inner loop: the fetched records, each deleted when it matches.
RECURSIVE DeleteScan(_, _, _, _, _, _, _)
DeleteScan(raw, j, rec, rr, r, failAt, st) ==
    IF j > Len(raw) THEN st
    ELSE IF DeleteMatch(raw[j], rr, r)
    THEN LET after == DoDelete(st, raw[j].Reference, failAt)
         IN  IF after.err # "none" THEN DeleteFailed(after, st)
             ELSE DeleteScan(raw, j + 1, rec, rr, r, failAt,
                             [after EXCEPT !.acc = Append(@, rec)])
    ELSE DeleteScan(raw, j + 1, rec, rr, r, failAt, st)

\* The outer loop: the records to delete.
RECURSIVE DeleteLoop(_, _, _, _, _)
DeleteLoop(raw, records, i, failAt, st) ==
    IF i > Len(records) THEN Return(st, st.acc, "none")
    ELSE
        LET rr == RR(records[i])
            parsed == Parse(rr)
        IN  IF ~parsed.ok THEN Return(st, <<>>, "parse")
            ELSE LET after == DeleteScan(raw, 1, records[i], rr, parsed.rec, failAt, st)
                 IN  IF after.done THEN after
                     ELSE DeleteLoop(raw, records, i + 1, failAt, after)

DeleteRecordsRun(z, ref, records, fetchOk, failAt) ==
    LET st == Fetched(Start(z, ref), fetchOk)
    IN  IF ~fetchOk THEN Return(st, <<>>, "fetch")
        ELSE DeleteLoop(z, records, 1, failAt, st)

----------------------------------------------------------------------------
(* SetRecords called from several goroutines on one Provider.  Each call   *)
(* is the code of SetRecords cut at its remote calls: the fetch, then one  *)
(* step per key of inputMap.  The Provider's mutex field is part of the    *)
(* state; no statement of provider.go locks or unlocks it.                 *)

Callers == {"g1", "g2"}

\* No call has started: the mutex is unlocked, no remote call was made.
NoCalls ==
    [pc    |-> [g \in Callers |-> "idle"],
     raw   |-> [g \in Callers |-> <<>>],
     map   |-> [g \in Callers |-> EmptyMap],
     todo  |-> [g \in Callers |-> <<>>],
     acc   |-> [g \in Callers |-> <<>>],
     err   |-> [g \in Callers |-> "none"],
     mutex |-> "unlocked",
     log   |-> <<>>]

\* The remote calls so far, each with the goroutine that made it.
Logged(g, cs) == [i \in DOMAIN cs |-> [by |-> g, call |-> cs[i].call, rec |-> cs[i].rec]]

\* SetRecords up to the loop over inputMap: the fetch, existingMap, inputMap.
ConcSetFetch(g) ==
    /\ conc.pc[g] = "idle"
    /\ \E records \in Inputs, fetchOk \in BOOLEAN :
          LET im == InputMap(records, 1, EmptyMap)
              fetch == <<[by |-> g, call |-> "fetch", rec |-> NoRec]>>
          IN  IF ~fetchOk \/ ~im.ok
              THEN conc' = [conc EXCEPT !.pc[g] = "done",
                                        !.err[g] = IF fetchOk THEN "parse" ELSE "fetch",
                                        !.log = @ \o fetch]
              ELSE \E order \in Orders(DOMAIN im.map) :
                      conc' = [conc EXCEPT !.pc[g] = "run", !.raw[g] = zone,
                                           !.map[g] = im.map, !.todo[g] = order,
                                           !.log = @ \o fetch]
    /\ UNCHANGED <<zone, nextRef, op, input, pre, calls, ret, err, fetched, prev, nops>>

\* One turn of the loop over inputMap, against the zone as it is now.
ConcSetStep(g) ==
    /\ conc.pc[g] = "run" /\ conc.todo[g] # <<>>
    /\ LET key == Head(conc.todo[g])
           after == SetStep(Start(zone, nextRef), conc.raw[g], key, conc.map[g][key], 0)
       IN  /\ zone' = after.zone
           /\ nextRef' = after.nextRef
           /\ conc' = IF after.err # "none"
                      THEN [conc EXCEPT !.pc[g] = "done", !.err[g] = after.err,
                                        !.acc[g] = <<>>,
                                        !.log = @ \o Logged(g, after.calls)]
                      ELSE [conc EXCEPT !.todo[g] = Tail(@),
                                        !.acc[g] = Append(@, conc.map[g][key]),
                                        !.log = @ \o Logged(g, after.calls)]
    /\ UNCHANGED <<op, input, pre, calls, ret, err, fetched, prev, nops>>

\* return updated, nil
ConcSetReturn(g) ==
    /\ conc.pc[g] = "run" /\ conc.todo[g] = <<>>
    /\ conc' = [conc EXCEPT !.pc[g] = "done"]
    /\ UNCHANGED <<zone, nextRef, op, input, pre, calls, ret, err, fetched, prev, nops>>

ConcNext == \E g \in Callers : ConcSetFetch(g) \/ ConcSetStep(g) \/ ConcSetReturn(g)

----------------------------------------------------------------------------
(* Actions *)

\* The call before becomes prev; the method's outcome becomes the last call.
Record(name, records, st) ==
    /\ prev' = [op |-> op, input |-> input, err |-> err]
    /\ op' = name
    /\ input' = records
    /\ pre' = zone
    /\ zone' = st.zone
    /\ nextRef' = st.nextRef
    /\ calls' = st.calls
    /\ ret' = st.ret
    /\ err' = st.err
    /\ fetched' = st.fetched
    /\ nops' = nops + 1
    /\ conc' = conc

\* The runs explored: MaxOps calls, every call but the last with at most
\* MaxEarlier records.
MayCall == nops < MaxOps /\ Len(input) <= MaxEarlier

AppendRecords ==
    /\ MayCall
    /\ \E records \in Inputs, failAt \in 0 .. MaxIn :
          LET st == AppendRecordsRun(zone, nextRef, records, failAt)
          IN  /\ failAt <= Len(st.calls)
              /\ Record("Append", records, st)

GetRecords ==
    /\ MayCall
    /\ \E fetchOk \in BOOLEAN :
          Record("Get", <<>>, GetRecordsRun(zone, nextRef, fetchOk))

SetRecords ==
    /\ MayCall
    /\ \E records \in Inputs, fetchOk \in BOOLEAN :
          LET im == InputMap(records, 1, EmptyMap)
          IN  \E order \in Orders(IF fetchOk /\ im.ok THEN DOMAIN im.map ELSE {}),
                 failAt \in 0 .. MaxIn :
                    LET st == SetRecordsRun(zone, nextRef, records, fetchOk, order, failAt)
                    IN  /\ failAt <= Len(st.calls)
                        /\ Record("Set", records, st)

DeleteRecords ==
    /\ MayCall
    /\ \E records \in Inputs, fetchOk \in BOOLEAN,
          failAt \in 0 .. MaxIn * Len(zone) :
             LET st == DeleteRecordsRun(zone, nextRef, records, fetchOk, failAt)
             IN  /\ failAt <= Len(st.calls)
                 /\ Record("Delete", records, st)

Init ==
    /\ zone \in InitZones
    /\ nextRef = 10
    /\ op = "none"
    /\ input = <<>>
    /\ pre = zone
    /\ calls = <<>>
    /\ ret = <<>>
    /\ err = "none"
    /\ fetched = "none"
    /\ prev = [op |-> "none", input |-> <<>>, err |-> "none"]
    /\ nops = 0
    /\ conc = NoCalls

Next == GetRecords \/ AppendRecords \/ SetRecords \/ DeleteRecords

Spec == Init /\ [][Next]_vars

\* Two SetRecords calls on one Provider, from any zone.
ConcSpec == Init /\ [][ConcNext]_vars

----------------------------------------------------------------------------
(* Vocabulary of the properties *)

Range(f) == {f[i] : i \in DOMAIN f}

\* The key SetRecords files an input record under, and a fetched record under.
InputKey(rec) == Key(RR(rec).Name, RR(rec).Type)
RawKey(raw) == Key(raw.Name, raw.Type)
InputKeys(records) == {InputKey(records[i]) : i \in DOMAIN records}

\* The record as the Provider's type switches see it.
Parsed(rec) == Parse(RR(rec)).rec
AllParse(records) == \A i \in DOMAIN records : Parse(RR(records[i])).ok

\* An input record of a kind the Provider translates: address, alias, text.
Translated(rec) == Parse(RR(rec)).ok /\ Handled(Parsed(rec))

\* The input record SetRecords keeps for a key: the last one bearing it.
KeptIndex(records, key) ==
    CHOOSE i \in DOMAIN records :
        /\ InputKey(records[i]) = key
        /\ \A j \in DOMAIN records : InputKey(records[j]) = key => j <= i
Kept(records, key) == Parsed(records[KeptIndex(records, key)])

\* The native name, type and data of an input record.
SameValue(raw, rec) ==
    raw.Name = RR(rec).Name /\ raw.Type = RR(rec).Type /\ raw.Data = RR(rec).Data

\* A list as GetRecords returns it holds the record: the same struct, name
\* and payload (expectRecord of client_test.go).
Present(rec, list) ==
    \E i \in DOMAIN list :
        /\ list[i].kind = Parsed(rec).kind
        /\ list[i].Name = Parsed(rec).Name
        /\ RR(list[i]).Data = RR(Parsed(rec)).Data

\* The calls of the last method that act on the reference.
CallsOn(ref) == {i \in DOMAIN calls : calls[i].call \in {"update", "delete"} /\ calls[i].ref = ref}

----------------------------------------------------------------------------
(* C1 *)

\* C1: Set is a merge.  Whatever the zone and the input, and whether or not
\* the call fails, SetRecords issues no update or delete against a remote
\* record whose (name, type) key is absent from the input, and the record is
\* in the zone afterwards as it was (a create adds a record and touches
\* none).  So after a successful Set of A followed by a successful Set whose
\* input has not A's key, A (an address, alias or text record, the kinds a
\* List returns) is in a following List, and so are the records the second
\* Set keeps.
C1_SetIsMerge ==
    op = "Set" =>
        /\ \A i \in DOMAIN pre :
              RawKey(pre[i]) \notin InputKeys(input) =>
                  /\ CallsOn(pre[i].Reference) = {}
                  /\ \E j \in DOMAIN zone : zone[j] = pre[i]
        /\ (prev.op = "Set" /\ prev.err = "none" /\ err = "none") =>
              /\ \A i \in DOMAIN prev.input :
                    (/\ Translated(prev.input[i])
                     /\ KeptIndex(prev.input, InputKey(prev.input[i])) = i
                     /\ InputKey(prev.input[i]) \notin InputKeys(input))
                    => Present(prev.input[i], ListOf(zone))
              /\ \A i \in DOMAIN input :
                    (/\ Translated(input[i])
                     /\ KeptIndex(input, InputKey(input[i])) = i)
                    => Present(input[i], ListOf(zone))

\* A Set of one record after a Set of one record with another key, both
\* successful and both writing, in a zone that held a record from before.
C1_Witness ==
    /\ op = "Set" /\ prev.op = "Set" /\ err = "none" /\ prev.err = "none"
    /\ Len(prev.input) = 1 /\ Len(input) = 1
    /\ Translated(prev.input[1]) /\ Translated(input[1])
    /\ InputKey(prev.input[1]) # InputKey(input[1])
    /\ Len(calls) = 1
    /\ Len(pre) = 2
    /\ \A i \in DOMAIN pre : RawKey(pre[i]) # InputKey(input[1])

----------------------------------------------------------------------------
(* C2, C3 *)

\* The translated form of an input record: its name and type, its TTL in
\* whole seconds, its data.
NativeOf(rec) ==
    metanameRR(RR(rec).Name, RR(rec).Type, Seconds(RR(rec).TTL), RR(rec).Data)

\* The fetched record equals the translated form (the reference apart).
EqualsNative(raw, rec) == [raw EXCEPT !.Reference = 0] = NativeOf(rec)

\* The fetched records sharing a key, and the one SetRecords holds for it.
Sharing(key) == {j \in DOMAIN pre : RawKey(pre[j]) = key}
Held(key) == pre[CHOOSE j \in Sharing(key) : \A l \in Sharing(key) : l <= j]

\* The creates and the updates of the last method for a key.
CreatesFor(key) ==
    {i \in DOMAIN calls : calls[i].call = "create" /\ RawKey(calls[i].rec) = key}
UpdatesFor(key) ==
    {i \in DOMAIN calls :
        /\ calls[i].call = "update"
        /\ \E j \in Sharing(key) : pre[j].Reference = calls[i].ref}

\* C2: in a successful Set, for every input key whose record (the one Set
\* keeps for the key, an address, alias or text record) finds a fetched
\* record with the key (the one Set holds for it) that does not match,
\* exactly one update is issued, against that record's reference, with the
\* input's translated name, type, TTL and data, and no create; if no fetched
\* record has the key, exactly one create with the translated form is
\* issued, and no update; and afterwards the zone holds a record with the
\* input's name, type and data.
C2_SetUpdatesOrCreates ==
    (op = "Set" /\ err = "none") =>
        \A key \in InputKeys(input) :
            LET r == input[KeptIndex(input, key)]
            IN  Translated(r) =>
                  /\ (Sharing(key) # {} /\ ~EqualsNative(Held(key), r)) =>
                        /\ CreatesFor(key) = {}
                        /\ Cardinality(UpdatesFor(key)) = 1
                        /\ \A i \in UpdatesFor(key) :
                              /\ calls[i].ref = Held(key).Reference
                              /\ calls[i].rec = NativeOf(r)
                  /\ Sharing(key) = {} =>
                        /\ UpdatesFor(key) = {}
                        /\ Cardinality(CreatesFor(key)) = 1
                        /\ \A i \in CreatesFor(key) : calls[i].rec = NativeOf(r)
                  /\ \E j \in DOMAIN zone : SameValue(zone[j], r)

\* A successful Set of two records: one updates a fetched record, one is
\* created.
C2_Witness ==
    /\ op = "Set" /\ err = "none" /\ Len(input) = 2 /\ Len(calls) = 2
    /\ \E i, j \in DOMAIN calls : calls[i].call = "update" /\ calls[j].call = "create"
    /\ \A i \in DOMAIN input : Translated(input[i])

\* C3: Set no-op.  In a successful Set, for an input record (the one Set
\* keeps for its key, an address, alias or text record) whose key a fetched
\* record has, Set issues no create and no update for the key exactly when
\* the record Set holds for the key has the input's type, name, TTL in whole
\* seconds and data; and the input record is in the returned list, once,
\* whether it matched or was updated.
C3_SetNoOp ==
    (op = "Set" /\ err = "none") =>
        \A key \in InputKeys(input) :
            LET r == input[KeptIndex(input, key)]
            IN  (Translated(r) /\ Sharing(key) # {}) =>
                  /\ (CreatesFor(key) \cup UpdatesFor(key) = {})
                        <=> (/\ Held(key).Type = RR(r).Type
                             /\ Held(key).Name = RR(r).Name
                             /\ Held(key).Ttl = Seconds(RR(r).TTL)
                             /\ Held(key).Data = RR(r).Data)
                  /\ Cardinality({i \in DOMAIN ret : ret[i] = Parsed(r)}) = 1

\* A Set of one text record with a fractional TTL that matches the fetched
\* record in whole seconds: no call, and the record is returned.
C3_Witness ==
    /\ op = "Set" /\ err = "none" /\ calls = <<>>
    /\ Len(input) = 1 /\ input[1].kind = "TXT" /\ input[1].TTL % Second # 0
    /\ Sharing(InputKey(input[1])) # {}
    /\ ret = <<Parsed(input[1])>>

----------------------------------------------------------------------------
(* C4 *)

\* An input record of DeleteRecords selects the fetched record: an address,
\* alias or text record with its name, type and data (not its TTL).
Selects(rec, raw) == Translated(rec) /\ SameValue(raw, rec)
Selected(records, raw) == \E i \in DOMAIN records : Selects(records[i], raw)

\* C4: Delete by value.  Whatever way a Delete ends, it removes only fetched
\* records that have the name, type and data of an address, alias or text
\* input record, and leaves the others as they were and in their order; a
\* successful Delete has removed every such record (all of several equal in
\* value, and whatever their TTL), so an input that differs in value from
\* what is stored removes nothing.
C4_DeleteByValue ==
    op = "Delete" =>
        /\ zone = SelectSeq(pre, LAMBDA raw : \E l \in DOMAIN zone : zone[l] = raw)
        /\ \A j \in DOMAIN pre :
              (\A l \in DOMAIN zone : zone[l] # pre[j]) => Selected(input, pre[j])
        /\ err = "none" =>
              zone = SelectSeq(pre, LAMBDA raw : ~Selected(input, raw))

\* A successful Delete of one text record whose TTL differs from the stored
\* ones removes the two fetched records equal to it in value.
C4_Witness ==
    /\ op = "Delete" /\ err = "none" /\ Len(input) = 1 /\ Translated(input[1])
    /\ Cardinality({j \in DOMAIN pre : SameValue(pre[j], input[1])}) = 2
    /\ \A j \in DOMAIN pre :
          SameValue(pre[j], input[1]) => pre[j].Ttl # Seconds(input[1].TTL)
    /\ Len(pre) = 2 /\ zone = <<>>

----------------------------------------------------------------------------
(* C5 *)

\* The input records AppendRecords creates: addresses, aliases and texts.
RECURSIVE TranslatedOf(_)
TranslatedOf(records) ==
    IF records = <<>> THEN <<>>
    ELSE (IF Translated(Head(records)) THEN <<Head(records)>> ELSE <<>>)
         \o TranslatedOf(Tail(records))

\* C5: a successful Append issues one create per address, alias or text
\* input record, in input order, with the record's translated form, whatever
\* the zone already holds: the zone grows by exactly these records, and the
\* returned list is these input records in order.  After two successful
\* Appends of the same single record, the listing of the zone shows the
\* record at least twice.
C5_AppendCreatesEach ==
    (op = "Append" /\ err = "none") =>
        LET t == TranslatedOf(input)
        IN  /\ Len(calls) = Len(t)
            /\ \A i \in DOMAIN t :
                  calls[i].call = "create" /\ calls[i].rec = NativeOf(t[i])
            /\ ret = [i \in DOMAIN t |-> Parsed(t[i])]
            /\ Len(zone) = Len(pre) + Len(t)
            /\ SubSeq(zone, 1, Len(pre)) = pre
            /\ \A i \in DOMAIN t :
                  [zone[Len(pre) + i] EXCEPT !.Reference = 0] = NativeOf(t[i])
            /\ (/\ prev.op = "Append" /\ prev.err = "none"
                /\ prev.input = input /\ Len(t) = 1 /\ Len(input) = 1) =>
                  Cardinality({j \in DOMAIN ListOf(zone) :
                                  /\ RR(ListOf(zone)[j]).Name = RR(t[1]).Name
                                  /\ RR(ListOf(zone)[j]).Type = RR(t[1]).Type
                                  /\ RR(ListOf(zone)[j]).Data = RR(t[1]).Data}) >= 2

\* Two successful Appends of the same record with a fractional TTL.
C5_Witness ==
    /\ op = "Append" /\ err = "none" /\ prev.op = "Append" /\ prev.err = "none"
    /\ prev.input = input /\ Len(input) = 1 /\ Translated(input[1])
    /\ input[1].TTL % Second # 0
    /\ Len(calls) = 1

----------------------------------------------------------------------------
(* C9 *)

----------------------------------------------------------------------------
(* C6, C7, C8, C10: what the claims state of failing calls *)

\* C6: an Append whose k-th create fails has issued no create after it, has
\* left the k-1 records created before it in the zone, and returns those
\* k-1 records with the error.
C6_AppendReturnsCreated ==
    (op = "Append" /\ err = "remote") =>
        /\ Len(zone) = Len(pre) + Len(calls) - 1
        /\ Len(ret) = Len(calls) - 1
        /\ \A i \in DOMAIN ret : NativeOf(ret[i]) = calls[i].rec

\* C7: an Append with an input record that is not an address, alias or text
\* record, or whose address is no address, does not succeed.
C7_AppendRejectsUnsupported ==
    (op = "Append" /\ \E i \in DOMAIN input : ~Translated(input[i])) =>
        err # "none"

\* C8: a Set in which a create or an update fails returns, with the error,
\* the records it created or updated before the failure.
C8_SetReturnsHandled ==
    (op = "Set" /\ err = "remote") =>
        \A i \in 1..(Len(calls) - 1) :
            \E j \in DOMAIN ret : NativeOf(ret[j]) = calls[i].rec

\* C10: a Delete with a text input record of empty value returns an error
\* and issues no delete.
C10_DeleteRejectsEmptyText ==
    (op = "Delete" /\ \E i \in DOMAIN input :
                         input[i].kind = "TXT" /\ input[i].Val = "") =>
        (err # "none" /\ \A i \in DOMAIN calls : calls[i].call # "delete")

----------------------------------------------------------------------------
(* C11 *)

\* A native record a listing shows: of type A, AAAA, CNAME or TXT, and, for
\* an A or AAAA record, with data that is an IP literal.
Translatable(raw) ==
    /\ raw.Type \in {"A", "AAAA", "CNAME", "TXT"}
    /\ raw.Type \in {"A", "AAAA"} => ParseAddr(raw.Data).ok

\* Its translation: the struct of its type with its name, its TTL as a
\* duration and its data (for an address, the IP the data denotes).
TranslationOf(raw) ==
    [kind |-> IF raw.Type \in {"A", "AAAA"} THEN "Address" ELSE raw.Type,
     Name |-> raw.Name,
     TTL |-> raw.Ttl * Second,
     Type |-> "",
     Val |-> IF raw.Type \in {"A", "AAAA"} THEN ParseAddr(raw.Data).ip ELSE raw.Data]

\* C11: a List fails only when the fetch fails.  Otherwise it returns, in
\* fetch order, exactly the translations of the fetched records of type A,
\* AAAA, CNAME or TXT whose data parses for the type; a record of another
\* type, or an A or AAAA record whose data is no IP literal, is left out; a
\* zone without translatable records gives the empty list and no error.  A
\* List issues no create, update or delete.
C11_ListTranslates ==
    op = "Get" =>
        /\ err \in {"none", "fetch"}
        /\ err = "none" <=> fetched = "ok"
        /\ calls = <<>> /\ zone = pre
        /\ err = "none" =>
              LET t == SelectSeq(pre, Translatable)
              IN  ret = [i \in DOMAIN t |-> TranslationOf(t[i])]

\* A List of a zone of two records, the first one not translatable: the
\* list is the translation of the second.
C11_Witness ==
    /\ op = "Get" /\ err = "none" /\ Len(pre) = 2
    /\ ~Translatable(pre[1]) /\ Translatable(pre[2])
    /\ ret = <<TranslationOf(pre[2])>>

----------------------------------------------------------------------------
(* C12 *)

\* C12: when the fetch of the zone fails, List, Set and Delete return the
\* fetch's error and no list, and have issued no create, update or delete:
\* the zone is as it was.
C12_FetchFailure ==
    (op \in {"Get", "Set", "Delete"} /\ fetched = "failed") =>
        /\ err = "fetch"
        /\ ret = <<>>
        /\ calls = <<>>
        /\ zone = pre

\* A Set of a record the zone has not, whose fetch fails.
C12_Witness ==
    /\ op = "Set" /\ fetched = "failed" /\ err = "fetch"
    /\ Len(input) = 1 /\ Translated(input[1])
    /\ \A j \in DOMAIN pre : RawKey(pre[j]) # InputKey(input[1])

----------------------------------------------------------------------------
(* C13 *)

\* C13: after a successful Set, every record of the zone whose (name, type)
\* pair occurs in the input has the name, type and data of an input record
\* with that pair: no other record with the pair remains.
C13_SetOnlyInputRecords ==
    (op = "Set" /\ err = "none") =>
        \A j \in DOMAIN zone :
            RawKey(zone[j]) \in InputKeys(input) =>
                \E i \in DOMAIN input :
                    InputKey(input[i]) = RawKey(zone[j]) /\ SameValue(zone[j], input[i])

----------------------------------------------------------------------------
(* C14 *)

\* The records are taken from the list: each from a place of its own.
TakenFrom(records, list) ==
    \E f \in [DOMAIN records -> DOMAIN list] :
        /\ \A i, j \in DOMAIN records : f[i] = f[j] => i = j
        /\ \A i \in DOMAIN records : list[f[i]] = records[i]

\* C14: a Delete of records taken from the List of the zone fails only when
\* the remote refuses to delete a record it holds; when it succeeds it
\* returns as many entries as were passed, and no passed record is in the
\* List of the zone afterwards.
C14_DeleteListed ==
    (op = "Delete" /\ fetched = "ok" /\ input # <<>> /\ TakenFrom(input, ListOf(pre))) =>
        /\ err = "none" \/ (err = "remote" /\ HasRef(zone, calls[Len(calls)].ref))
        /\ err = "none" =>
              /\ Len(ret) = Len(input)
              /\ \A i \in DOMAIN input :
                    \A j \in DOMAIN ListOf(zone) : ListOf(zone)[j] # input[i]

----------------------------------------------------------------------------
(* C15 *)

\* The native record translated back as GetRecords does gives the record g.
ListsAs(mrec, g) == Listed(mrec).ok /\ Listed(mrec).rec = g

\* A record with a TTL of whole seconds.
WholeSeconds(g) == g.TTL % Second = 0

----------------------------------------------------------------------------
(* C16 *)

\* The last call repeats the call before it, which succeeded.
Retry(name) ==
    /\ op = name /\ prev.op = name /\ prev.err = "none"
    /\ prev.input = input /\ input # <<>>

\* C16 as stated: a Set or an Append that repeats a call that succeeded,
\* and succeeds, has issued no create, and the zone is as it was before it.
C16_RetryIsSafe ==
    ((Retry("Set") \/ Retry("Append")) /\ err = "none") =>
        /\ \A i \in DOMAIN calls : calls[i].call # "create"
        /\ zone = pre

\* C16, amended: a Set that repeats a Set that succeeded finds every record
\* of its input in the zone: it issues no create and no update, whether the
\* remote could fail or not, returns without error, and the zone is as it
\* was before it.  (Append does not look at the zone: see C5.)
C16_SetRetryIsSafe ==
    (Retry("Set") /\ fetched = "ok") =>
        /\ calls = <<>>
        /\ err = "none"
        /\ zone = pre

\* A Set of one record that created it, repeated.
C16_Witness ==
    /\ Retry("Set") /\ err = "none" /\ calls = <<>>
    /\ Len(input) = 1 /\ Translated(input[1])
    /\ \E j \in DOMAIN pre :
          pre[j].Reference >= 10 /\ SameValue(pre[j], input[1])

----------------------------------------------------------------------------
(* C17 *)

\* C17: the calls on one Provider are single-flight (each holds the
\* Provider's mutex from its fetch to its return), so two SetRecords calls
\* running at the same time that both fetched a zone without a key do not
\* both create a record for the key.
C17_NoDoubleCreate ==
    \A i, j \in DOMAIN conc.log :
        (/\ conc.log[i].by # conc.log[j].by
         /\ conc.log[i].call = "create" /\ conc.log[j].call = "create") =>
            RawKey(conc.log[i].rec) # RawKey(conc.log[j].rec)

----------------------------------------------------------------------------
(* C18 *)

\* C18: whatever way a Set ends, it has issued at most one create or update
\* for each key of its input, however many input records have the key; a
\* successful Set returns one record per distinct input key, the last input
\* record with the key, and the call it issued for the key, if any, carries
\* that record.
C18_DuplicateInputKeys ==
    op = "Set" =>
        /\ \A key \in InputKeys(input) :
              Cardinality(CreatesFor(key) \cup UpdatesFor(key)) <= 1
        /\ Len(calls) <= Cardinality(InputKeys(input))
        /\ err = "none" =>
              /\ Len(ret) = Cardinality(InputKeys(input))
              /\ \A key \in InputKeys(input) :
                    LET last == input[KeptIndex(input, key)]
                    IN  /\ Cardinality({i \in DOMAIN ret : ret[i] = Parsed(last)}) = 1
                        /\ \A i \in CreatesFor(key) \cup UpdatesFor(key) :
                              calls[i].rec = NativeOf(last)

\* A successful Set of two text records with one key and two values: one
\* call, with the second value, and one record returned.
C18_Witness ==
    /\ op = "Set" /\ err = "none" /\ Len(input) = 2
    /\ InputKey(input[1]) = InputKey(input[2])
    /\ RR(input[1]).Data # RR(input[2]).Data
    /\ Len(calls) = 1 /\ calls[1].rec.Data = RR(input[2]).Data
    /\ ret = <<Parsed(input[2])>>

----------------------------------------------------------------------------
(* C19 *)

----------------------------------------------------------------------------
(* C20 *)

\* C20: a Set that fetched the zone and whose input has a record that does
\* not parse returns the parse error and no list, and has issued no create
\* and no update: the zone is as it was, wherever in the input the record is.
C20_SetValidatesFirst ==
    (op = "Set" /\ fetched = "ok" /\ ~AllParse(input)) =>
        /\ err = "parse"
        /\ calls = <<>>
        /\ zone = pre
        /\ ret = <<>>

\* A Set whose first record would be created and whose second record does
\* not parse.
C20_Witness ==
    /\ op = "Set" /\ fetched = "ok" /\ err = "parse" /\ Len(input) = 2
    /\ Translated(input[1]) /\ ~Parse(RR(input[2])).ok
    /\ Sharing(InputKey(input[1])) = {}
    /\ zone = pre

----------------------------------------------------------------------------
(* C21 *)

\* C21: every record in the list a successful Set returns, of whatever
\* kind, is in the zone afterwards: a record with its name, its type, its
\* TTL in whole seconds and its data.
C21_SetReturnsWhatIsSet ==
    (op = "Set" /\ err = "none") =>
        \A i \in DOMAIN ret :
            \E j \in DOMAIN zone : EqualsNative(zone[j], ret[i])

----------------------------------------------------------------------------
(* C22 *)

\* C22: within one Delete, whatever its input (the same record twice
\* included) and whatever way it ends, at most one delete is issued for any
\* reference.
C22_DeleteOncePerReference ==
    op = "Delete" =>
        \A i, j \in DOMAIN calls :
            (/\ calls[i].call = "delete" /\ calls[j].call = "delete"
             /\ calls[i].ref = calls[j].ref) => i = j

====
